---- MODULE Spec2Model ----
(***************************************************************************)
(* The media-ingestion pipeline of TweetAPI: MediaController                *)
(* (api/controllers/controllers.py) and its two worker threads             *)
(* (api/utils/threads.py).                                                 *)
(*                                                                         *)
(* Three execution contexts take steps:                                    *)
(*   - the event-loop thread, which runs the request coroutines            *)
(*     (save_media) and, at shutdown, the lifespan's stop_threads; only    *)
(*     one of them runs at a time and they change over at an await;        *)
(*   - the ReadThread;                                                     *)
(*   - the WriteThread.                                                    *)
(* A string is a sequence of one-character strings, a path a sequence of   *)
(* components.                                                             *)
(***************************************************************************)
EXTENDS Integers, Sequences, FiniteSets, Bags, TLC

(* ------------------------------ bounds -------------------------------- *)

\* Capacity of the read queue (Queue(10_000) in the program).
ReadCap == 1

\* Capacity of the write queue (Queue(100_000) in the program).
WriteCap == 1

\* Largest number of parts in one upload form.
MaxFiles == 2

\* Longest filename the sanitisation is applied to.
MaxNameLen == 24

\* Number of upload requests: one more than the read queue holds.
NRequests == ReadCap + 1

\* Number of rows of table `users`.
NUsers == 2

\* Largest number of tweets ever created.
MaxTweets == 1

\* Number of clients that send requests to the users and tweets endpoints.
NClients == 2

(* ------------------------- program constants -------------------------- *)

\* Media.filename_max_length
filename_max_length == 20

\* Number of hexadecimal digits of uuid4().hex
UuidHexLen == 32

(* ------------------------------ strings ------------------------------- *)

Alphabet ==
    << "a", "b", "c", "d", "e", "f", "g", "h", "i", "j", "k", "l", "m",
       "n", "o", "p", "q", "r", "s", "t", "u", "v", "w", "x", "y", "z" >>

HexDigits ==
    << "0", "1", "2", "3", "4", "5", "6", "7",
       "8", "9", "a", "b", "c", "d", "e", "f" >>

Digits == << "1", "2", "3", "4", "5", "6", "7", "8", "9" >>

Slash == "/"

Backslash == "\\"

\* str(n) for the ids the model reaches.
Str(n) == << Digits[n] >>

\* The values uuid4().hex may return: 32 hexadecimal digits.
UuidHexes ==
    { [i \in 1..UuidHexLen |-> HexDigits[((i * k) % 16) + 1]] : k \in {1, 3} }

\* text[:n]
Prefix(text, n) ==
    SubSeq(text, 1, IF n < Len(text) THEN n ELSE Len(text))

\* text[-n:] for n > 0
Suffix(text, n) ==
    SubSeq(text, IF n < Len(text) THEN Len(text) - n + 1 ELSE 1, Len(text))

\* join_symbol * count
Repeat(symbol, count) == [i \in 1..count |-> symbol]

\* A cut that forgets to make room for the join symbols.
CutOffHalves(text, max_length) ==
    LET cut_index == max_length \div 2
    IN  Prefix(text, cut_index) \o Repeat("_", 2) \o Suffix(text, cut_index)

\* MediaController.__cut_off(text, max_length, join_symbol="_")
CutOff(text, max_length) ==
    LET offset == 1
        cut_index == (max_length \div 2) - offset
        first_half == Prefix(text, cut_index)
        middle == Repeat("_", offset * 2)
        second_half == Suffix(text, cut_index)
    IN  first_half \o middle \o second_half

IsSeparator(c) == c = Slash \/ c = Backslash

NotSeparator(c) == ~IsSeparator(c)

\* re.sub(r"[/\\]", "", name)
RemoveSeparators(name) == SelectSeq(name, NotSeparator)

\* MediaController.__refactor_filename(name); uuid is what uuid4().hex
\* returns when it is called.
RefactorFilename(name, uuid) ==
    IF name = << >>
    THEN uuid
    ELSE LET stripped == RemoveSeparators(name)
         IN  IF Len(stripped) > filename_max_length
             THEN CutOff(stripped, filename_max_length)
             ELSE stripped

DecimalDigits == << "0", "1", "2", "3", "4", "5", "6", "7", "8", "9" >>

\* re.search(pattern, text) for a pattern of literal characters
Search(pattern, text) ==
    \E i \in 1..(Len(text) - Len(pattern) + 1) :
        SubSeq(text, i, i + Len(pattern) - 1) = pattern

\* re.search(r"^[0-9]+$", text)
IsNumeric(text) ==
    /\ text # << >>
    /\ \A i \in 1..Len(text) : \E d \in 1..10 : text[i] = DecimalDigits[d]

DigitValue(c) == (CHOOSE d \in 1..10 : DecimalDigits[d] = c) - 1

RECURSIVE IntOf(_)
\* int(text) of a numeric text
IntOf(text) ==
    IF text = << >>
    THEN 0
    ELSE 10 * IntOf(SubSeq(text, 1, Len(text) - 1)) + DigitValue(text[Len(text)])

(* ------------------------------- paths -------------------------------- *)

\* settings.MEDIA_DIR, an absolute directory
MEDIA_DIR == << <<"i", "m", "a", "g", "e", "s">> >>

Dot == << "." >>

DotDot == << ".", "." >>

\* The value of a column that holds NULL.
Null == << >>

\* Path.__truediv__: pathlib drops an empty and a "." component on joining.
JoinPath(dir, component) ==
    IF component = << >> \/ component = Dot THEN dir ELSE Append(dir, component)

RECURSIVE ResolveFrom(_, _)
\* Path.resolve on an absolute path without symbolic links: ".." steps to the
\* parent, the root being its own parent.
ResolveFrom(done, rest) ==
    IF rest = << >>
    THEN done
    ELSE IF Head(rest) = DotDot
         THEN ResolveFrom(IF Len(done) > 1 THEN SubSeq(done, 1, Len(done) - 1)
                                           ELSE done,
                          Tail(rest))
         ELSE ResolveFrom(Append(done, Head(rest)), Tail(rest))

\* media_location.absolute().resolve()
Resolve(path) == ResolveFrom(<< >>, path)

\* settings.MEDIA_DIR / str(media_item_id)
MediaItemDir(media_item_id) == JoinPath(MEDIA_DIR, Str(media_item_id))

\* The `file` that __update_media_items gives a row.
MediaLocation(media_item_id, name) ==
    Resolve(JoinPath(MediaItemDir(media_item_id), name))

Parent(path) == SubSeq(path, 1, Len(path) - 1)

(* ------------------------------- state -------------------------------- *)

VARIABLES
    stop_event,     \* MediaController.__stop_event: is the Event set
    read_queue,     \* MediaController.__read_queue
    write_queue,    \* MediaController.__write_queue
    read_thread,    \* the ReadThread: where it is and what it holds
    write_thread,   \* the WriteThread: where it is and what it holds
    requests,       \* the upload requests received so far, in order of arrival
    media,          \* the rows of table `media`; a row's id is its index
    dirs,           \* the directories that exist
    disk,           \* the regular files that exist: path -> bytes
    stopper,        \* the lifespan's call of stop_threads
    loop,           \* what occupies the event-loop thread
    put_log,        \* history: every item the ReadThread put on the write queue
    probe,          \* a filename and the name __refactor_filename gives it
    users,          \* the rows of table `users`: id -> name, followers, following
    tweets,         \* the rows of table `tweets`: id and author_id
    tweet_seq,      \* the last value of the sequence behind tweets.id
    likes,          \* the rows of table `likes`: a bag of (user_id, tweet_id)
    calls           \* the request each client has in progress or had answered

\* The tables and requests of the users, tweets and likes endpoints.
social == << users, tweets, tweet_seq, likes, calls >>

\* The state of the media pipeline.
pipeline ==
    << stop_event, read_queue, write_queue, read_thread, write_thread,
       requests, media, dirs, disk, stopper, loop, put_log, probe >>

vars == << pipeline, social >>

\* The sentinel: stop() puts None.
None == [tag |-> "None"]

\* (media_items, files): what _save_media puts on the read queue.
ReadJob(medias, upload_files) ==
    [tag |-> "job", medias |-> medias, upload_files |-> upload_files]

\* (media, file): what the ReadThread puts on the write queue.
WriteJob(media_id, file) == [tag |-> "job", media |-> media_id, file |-> file]

\* An UploadFile part of field `file`, with its filename.
Upload(filename) == [upload |-> TRUE, filename |-> filename]

\* A part of field `file` that is a plain form value, no UploadFile.
TextPart == [upload |-> FALSE, filename |-> << >>]

\* n uploads with the plain names "a", "b", ...
PlainForm(n) == [k \in 1..n |-> Upload(<< Alphabet[k] >>)]

\* form.getlist("file") of the forms a request may carry: no part, up to
\* MaxFiles plainly named uploads, an upload named "..", a part that is no
\* file, and a file followed by a part that is none.
Forms ==
    { PlainForm(n) : n \in 0..MaxFiles }
        \cup { << Upload(DotDot) >>, << TextPart >>, << Upload(<<"a">>), TextPart >> }

\* The bytes of part k of request r: every payload is different.
Content(r, k) == << r, k >>

\* The UploadFile objects of request r.
UploadFiles(r, form) ==
    [k \in 1..Len(form) |->
        [filename |-> form[k].filename, content |-> Content(r, k)]]

Terminated(thread) == thread.pc \in {"done", "raised"}

IdleProbe == [filename |-> << >>, name |-> << >>, done |-> FALSE]

\* The pipeline once the lifespan has started the two threads. `history`
\* and `late_gets` are history, no state of the program: a thread started
\* with `history` counts in `late_gets` the gets it makes with the stop flag
\* set.
PipelineStart(history) ==
    /\ stop_event = FALSE
    /\ read_queue = << >>
    /\ write_queue = << >>
    /\ read_thread = [pc |-> "test", item |-> None, files |-> << >>, i |-> 0,
                      history |-> history, late_gets |-> 0]
    /\ write_thread = [pc |-> "test", item |-> None,
                       history |-> history, late_gets |-> 0]
    /\ requests = << >>
    /\ media = << >>
    /\ dirs = { MEDIA_DIR }
    /\ disk = << >>
    /\ stopper = [pc |-> "idle", timed_out |-> {}]
    /\ loop = "free"
    /\ put_log = << >>

PipelineInit == PipelineStart(FALSE)

UserIds == 1..NUsers

\* The ids a request may name: those of the rows and one past them.
TargetIds == 1..(NUsers + 1)

\* The tweet ids a request may name: those ever given and one past them.
TweetIds == 1..(MaxTweets + 1)

Clients == 1..NClients

\* An empty JSON object; a JSON object is a function from its keys.
EmptyMap == [key \in {} |-> << >>]

\* A client that has sent nothing yet.
IdleCall ==
    [pc |-> "idle", op |-> "none", user |-> 0, target |-> 0,
     status |-> 0, detail |-> "", me |-> None, found |-> None, pre |-> None]

\* The tables as the service finds them: the users exist and follow nobody
\* (`default=lambda: {}`), there is no tweet and no like.
SocialInit ==
    /\ users = [u \in UserIds |->
                  [id |-> u, name |-> << Alphabet[u] >>,
                   followers |-> EmptyMap, following |-> EmptyMap]]
    /\ tweets = {}
    /\ tweet_seq = 0
    /\ likes = EmptyBag
    /\ calls = [c \in Clients |-> IdleCall]

\* The state once the lifespan has started the two threads.
Init == PipelineInit /\ probe = IdleProbe /\ SocialInit

(* ------------------- ValidateUploadMediaMiddleware -------------------- *)

\* settings.MAX_MEDIA_SIZE, which main.py gives the middleware as max_size
MAX_MEDIA_SIZE == 6 * 1024 * 1024

\* ValidateUploadMediaMiddleware.SUPPORTED_TYPES[0]
MultipartFormData ==
    << "m", "u", "l", "t", "i", "p", "a", "r", "t", "/",
       "f", "o", "r", "m", "-", "d", "a", "t", "a" >>

TextPlain == << "t", "e", "x", "t", "/", "p", "l", "a", "i", "n" >>

\* What stands for a header that is not sent; no text is equal to it.
Absent == << "absent" >>

\* The headers of a request.
Headers(content_type, content_length) ==
    [content_type |-> content_type, content_length |-> content_length]

\* The headers of a well-formed upload.
PlainHeaders == Headers(MultipartFormData, << "1", "2" >>)

\* A middleware that lets any content type through.
CheckContentTypeLax(current_content_type) ==
    IF current_content_type = Absent THEN "missing_header" ELSE "supported"

\* __check_content_type: the response the header is turned down with, if any.
CheckContentType(current_content_type) ==
    IF current_content_type = Absent
    THEN "missing_header"
    ELSE IF Search(MultipartFormData, current_content_type)
         THEN "supported"
         ELSE "unsupported_media_type"

\* dispatch, for a POST to the upload path: the response it returns itself,
\* or "call_next" when it hands the request on.
Dispatch(headers) ==
    IF CheckContentType(headers.content_type) # "supported"
    THEN CheckContentType(headers.content_type)
    ELSE IF headers.content_length = Absent
    THEN "length_required"
    ELSE IF ~IsNumeric(headers.content_length)
    THEN "length_required"
    ELSE IF IntOf(headers.content_length) > MAX_MEDIA_SIZE
    THEN "request_entity_too_large"
    ELSE "call_next"

\* The status code of the response a request ends with.
StatusCode(result) ==
    CASE result = "created" -> 201
      [] result = "missing_header" -> 422
      [] result = "unsupported_media_type" -> 415
      [] result = "length_required" -> 411
      [] result = "request_entity_too_large" -> 413
      [] result = "empty_field" -> 422
      [] result = "file_error" -> 422
      [] result = "queue_closed" -> 500
      [] result = "db_error" -> 500
      [] OTHER -> 0

(* ----------------- the request coroutine: save_media ------------------ *)

\* A _save_media that never looks at the stop flag.
QueueClosedNever == FALSE

\* _save_media: `if self.__stop_event.is_set()`
QueueClosed == stop_event

\* __create_media_items: the rows media_manager.add_all inserts, ids assigned.
CreateMediaItems(files, uuids) ==
    [k \in 1..Len(files) |->
        [name |-> RefactorFilename(files[k].filename, uuids[k]), file |-> Null]]

\* The database is PostgreSQL: an insert of a name longer than its column
\* `String(filename_max_length)` is refused.
FitsColumn(name) == Len(name) <= filename_max_length

NewRequest(headers, form, pc, result, media_items) ==
    [headers |-> headers, form |-> form, pc |-> pc, result |-> result,
     media_items |-> media_items, late |-> FALSE, closed |-> stop_event,
     waited |-> FALSE]

\* upload_media behind the middleware: `await request.form()`, save_media and
\* _save_media up to `await media_manager.add_all`, the insert included. The
\* insert is one transaction: it stores every row or, refused, none, and the
\* request ends with the server's error response.
UploadMediaRoute(headers, form) ==
    /\ loop = "free"
    /\ Len(requests) < NRequests
    /\ IF form = << >>
       THEN /\ requests' = Append(requests,
                    NewRequest(headers, form, "returned", "empty_field", << >>))
            /\ media' = media
       ELSE IF QueueClosed
       THEN /\ requests' = Append(requests,
                    NewRequest(headers, form, "returned", "queue_closed", << >>))
            /\ media' = media
       ELSE IF \E k \in 1..Len(form) : ~form[k].upload
       THEN /\ requests' = Append(requests,
                    NewRequest(headers, form, "returned", "file_error", << >>))
            /\ media' = media
       ELSE \E uuids \in [1..Len(form) -> UuidHexes] :
            LET items == CreateMediaItems(form, uuids)
            IN  IF \A k \in 1..Len(items) : FitsColumn(items[k].name)
                THEN /\ media' = media \o items
                     /\ requests' = Append(requests,
                            NewRequest(headers, form, "update", "pending",
                                       [k \in 1..Len(form) |-> Len(media) + k]))
                ELSE /\ media' = media
                     /\ requests' = Append(requests,
                            NewRequest(headers, form, "returned", "db_error", << >>))
    /\ UNCHANGED << stop_event, read_queue, write_queue, read_thread, write_thread,
                    dirs, disk, stopper, loop, put_log, probe, social >>

\* A well-formed upload request with the given parts in field `file`.
SaveMedia(form) == UploadMediaRoute(PlainHeaders, form)

\* An upload request: the middleware answers it or hands it to the route.
UploadMedia(headers, form) ==
    IF Dispatch(headers) = "call_next"
    THEN UploadMediaRoute(headers, form)
    ELSE /\ loop = "free"
         /\ Len(requests) < NRequests
         /\ requests' = Append(requests,
                NewRequest(headers, form, "returned", Dispatch(headers), << >>))
         /\ UNCHANGED << stop_event, read_queue, write_queue, read_thread,
                         write_thread, media, dirs, disk, stopper, loop, put_log,
                         probe, social >>

\* An update that sets and persists `file` without making the directories.
UpdateMediaItemsNoDir(r) ==
    /\ loop = "free"
    /\ requests[r].pc = "update"
    /\ LET ids == requests[r].media_items
           mine == { ids[k] : k \in 1..Len(ids) }
       IN  media' = [id \in 1..Len(media) |->
                        IF id \in mine
                        THEN [media[id] EXCEPT
                                 !.file = MediaLocation(id, media[id].name)]
                        ELSE media[id]]
    /\ requests' = [requests EXCEPT ![r].pc = "put"]
    /\ UNCHANGED << stop_event, read_queue, write_queue, read_thread, write_thread,
                    dirs, disk, stopper, loop, put_log, probe, social >>

\* __update_media_items, from the return of add_all to the return of update:
\* the directory of every row is made and its `file` set, then persisted.
UpdateMediaItems(r) ==
    /\ loop = "free"
    /\ requests[r].pc = "update"
    /\ LET ids == requests[r].media_items
           mine == { ids[k] : k \in 1..Len(ids) }
       IN  /\ dirs' = dirs \cup { MediaItemDir(id) : id \in mine }
           /\ media' = [id \in 1..Len(media) |->
                           IF id \in mine
                           THEN [media[id] EXCEPT
                                    !.file = MediaLocation(id, media[id].name)]
                           ELSE media[id]]
    /\ requests' = [requests EXCEPT ![r].pc = "put"]
    /\ UNCHANGED << stop_event, read_queue, write_queue, read_thread, write_thread,
                    disk, stopper, loop, put_log, probe, social >>

\* A queue without a bound.
HasSlotAlways(queue, maxsize) == TRUE

\* Queue.put(item) returns once the queue holds fewer items than its maxsize.
HasSlot(queue, maxsize) == Len(queue) < maxsize

\* A submission that waits until the ReadThread has nothing left to do.
CanSubmitOnceDrained ==
    /\ read_queue = << >>
    /\ read_thread.pc \notin {"gather", "put"}

\* `self.__read_queue.put(...)` of _save_media can return.
CanSubmit == HasSlot(read_queue, ReadCap)

\* _save_media reaches `self.__read_queue.put` with the queue full: the call
\* blocks the event-loop thread.
PutWait(r) ==
    /\ loop = "free"
    /\ requests[r].pc = "put"
    /\ ~CanSubmit
    /\ loop' = "request"
    /\ requests' = [requests EXCEPT ![r].pc = "blocked", ![r].waited = TRUE]
    /\ UNCHANGED << stop_event, read_queue, write_queue, read_thread, write_thread,
                    media, dirs, disk, stopper, put_log, probe, social >>

\* `self.__read_queue.put((media_items, files))` and `return media_items`.
Put(r) ==
    /\ \/ loop = "free" /\ requests[r].pc = "put"
       \/ loop = "request" /\ requests[r].pc = "blocked"
    /\ CanSubmit
    /\ read_queue' = Append(read_queue,
                            ReadJob(requests[r].media_items,
                                    UploadFiles(r, requests[r].form)))
    /\ requests' = [requests EXCEPT ![r].pc = "returned",
                                    ![r].result = "created",
                                    ![r].late = stop_event]
    /\ loop' = "free"
    /\ UNCHANGED << stop_event, write_queue, read_thread, write_thread,
                    media, dirs, disk, stopper, put_log, probe, social >>

(* --------------------- BaseThread and ReadThread ---------------------- *)

\* History: the late gets of a thread after one more get.
LateGets(thread) ==
    IF thread.history /\ stop_event
    THEN thread.late_gets + 1
    ELSE thread.late_gets

\* A loop that never looks at the stop flag.
LoopContinuesAlways == TRUE

\* A loop whose test is inverted.
LoopContinuesInverted == stop_event

\* __run_async, __run_sync: `while not self.stop_event.is_set()`
LoopContinues == ~stop_event

\* __run_async: the loop test.
ReadTest ==
    /\ read_thread.pc = "test"
    /\ read_thread' = [read_thread EXCEPT
                          !.pc = IF LoopContinues THEN "get" ELSE "done"]
    /\ UNCHANGED << stop_event, read_queue, write_queue, write_thread, requests,
                    media, dirs, disk, stopper, loop, put_log, probe, social >>

\* A get that drops the sentinel and waits for the next item.
ReadGetSkipsNone ==
    /\ read_thread.pc = "get"
    /\ read_queue # << >>
    /\ read_queue' = Tail(read_queue)
    /\ read_thread' =
          IF Head(read_queue) = None
          THEN [read_thread EXCEPT !.pc = "get", !.late_gets = LateGets(read_thread)]
          ELSE [read_thread EXCEPT !.pc = "gather", !.item = Head(read_queue),
                                    !.files = << >>, !.i = 0,
                                    !.late_gets = LateGets(read_thread)]
    /\ UNCHANGED << stop_event, write_queue, write_thread, requests,
                    media, dirs, disk, stopper, loop, put_log, probe, social >>

\* async_func: `item = self.queue.get()`; on None, task_done() and return.
ReadGet ==
    /\ read_thread.pc = "get"
    /\ read_queue # << >>
    /\ read_queue' = Tail(read_queue)
    /\ read_thread' =
          IF Head(read_queue) = None
          THEN [read_thread EXCEPT !.pc = "test", !.late_gets = LateGets(read_thread)]
          ELSE [read_thread EXCEPT !.pc = "gather", !.item = Head(read_queue),
                                    !.files = << >>, !.i = 0,
                                    !.late_gets = LateGets(read_thread)]
    /\ UNCHANGED << stop_event, write_queue, write_thread, requests,
                    media, dirs, disk, stopper, loop, put_log, probe, social >>

\* What `await gather(*tasks)` returns: the bytes of each file, in order.
Gathered(upload_files) ==
    [k \in 1..Len(upload_files) |-> upload_files[k].content]

\* async_func: `files = await gather(*tasks)`, every read successful.
ReadGather ==
    /\ read_thread.pc = "gather"
    /\ read_thread' = [read_thread EXCEPT
                          !.pc = "put",
                          !.files = Gathered(read_thread.item.upload_files),
                          !.i = 1]
    /\ UNCHANGED << stop_event, read_queue, write_queue, write_thread, requests,
                    media, dirs, disk, stopper, loop, put_log, probe, social >>

\* A failure that the loop survives: the job is dropped and the next taken.
ReadRaiseSwallowed ==
    /\ read_thread.pc = "gather"
    /\ read_thread' = [read_thread EXCEPT !.pc = "test"]
    /\ UNCHANGED << stop_event, read_queue, write_queue, write_thread, requests,
                    media, dirs, disk, stopper, loop, put_log, probe, social >>

\* A failure that lets the file read before it through to the write queue.
ReadRaisePartial ==
    /\ read_thread.pc = "gather"
    /\ HasSlot(write_queue, WriteCap)
    /\ LET item == WriteJob(read_thread.item.medias[1],
                            read_thread.item.upload_files[1].content)
       IN  /\ write_queue' = Append(write_queue, item)
           /\ put_log' = Append(put_log, item)
    /\ read_thread' = [read_thread EXCEPT !.pc = "raised"]
    /\ UNCHANGED << stop_event, read_queue, write_thread, requests,
                    media, dirs, disk, stopper, loop, probe, social >>

\* async_func: a read raises; the exception leaves gather, async_func, the
\* loop and run(), and the thread ends.
ReadRaise ==
    /\ read_thread.pc = "gather"
    /\ read_thread' = [read_thread EXCEPT !.pc = "raised"]
    /\ UNCHANGED << stop_event, read_queue, write_queue, write_thread, requests,
                    media, dirs, disk, stopper, loop, put_log, probe, social >>

\* A zip that pairs the medias with the files from the far end.
ZipItemReversed(medias, files, i) ==
    WriteJob(medias[i], files[Len(files) - i + 1])

\* The i-th pair of zip(medias, files).
ZipItem(medias, files, i) == WriteJob(medias[i], files[i])

\* A loop of puts that ends after the first pair.
ReadPutFirstOnly ==
    /\ read_thread.pc = "put"
    /\ HasSlot(write_queue, WriteCap)
    /\ LET item == ZipItem(read_thread.item.medias, read_thread.files, read_thread.i)
       IN  /\ write_queue' = Append(write_queue, item)
           /\ put_log' = Append(put_log, item)
    /\ read_thread' = [read_thread EXCEPT !.pc = "test"]
    /\ UNCHANGED << stop_event, read_queue, write_thread, requests,
                    media, dirs, disk, stopper, loop, probe, social >>

\* async_func: one `self.queue_to_write.put((media, file))` of the for loop;
\* after the last, task_done() and return.
ReadPut ==
    /\ read_thread.pc = "put"
    /\ HasSlot(write_queue, WriteCap)
    /\ LET item == ZipItem(read_thread.item.medias, read_thread.files, read_thread.i)
       IN  /\ write_queue' = Append(write_queue, item)
           /\ put_log' = Append(put_log, item)
    /\ read_thread' =
          IF read_thread.i < Len(read_thread.files)
          THEN [read_thread EXCEPT !.i = read_thread.i + 1]
          ELSE [read_thread EXCEPT !.pc = "test"]
    /\ UNCHANGED << stop_event, read_queue, write_thread, requests,
                    media, dirs, disk, stopper, loop, probe, social >>

(* ---------------------------- WriteThread ----------------------------- *)

\* A loop of the WriteThread that goes on whatever the flag.
WriteTestIgnoresFlag ==
    /\ write_thread.pc = "test"
    /\ write_thread' = [write_thread EXCEPT !.pc = "get"]
    /\ UNCHANGED << stop_event, read_queue, write_queue, read_thread, requests,
                    media, dirs, disk, stopper, loop, put_log, probe, social >>

\* __run_sync: the loop test.
WriteTest ==
    /\ write_thread.pc = "test"
    /\ write_thread' = [write_thread EXCEPT
                           !.pc = IF LoopContinues THEN "get" ELSE "done"]
    /\ UNCHANGED << stop_event, read_queue, write_queue, read_thread, requests,
                    media, dirs, disk, stopper, loop, put_log, probe, social >>

\* func: `item = self.queue.get()`; on None, task_done() and return.
WriteGet ==
    /\ write_thread.pc = "get"
    /\ write_queue # << >>
    /\ write_queue' = Tail(write_queue)
    /\ write_thread' =
          IF Head(write_queue) = None
          THEN [write_thread EXCEPT !.pc = "test",
                                    !.late_gets = LateGets(write_thread)]
          ELSE [write_thread EXCEPT !.pc = "write", !.item = Head(write_queue),
                                    !.late_gets = LateGets(write_thread)]
    /\ UNCHANGED << stop_event, read_queue, read_thread, requests,
                    media, dirs, disk, stopper, loop, put_log, probe, social >>

\* media_path.open(mode="wb") succeeds on a path that is not a directory and
\* whose parent directory exists.
CanOpen(path) ==
    /\ path # Null
    /\ path \notin dirs
    /\ Parent(path) \in dirs

\* func: the file is opened, the bytes written, the file closed; task_done().
WriteFile ==
    /\ write_thread.pc = "write"
    /\ LET path == media[write_thread.item.media].file
       IN  /\ CanOpen(path)
           /\ disk' = [p \in (DOMAIN disk) \cup {path} |->
                          IF p = path THEN write_thread.item.file ELSE disk[p]]
    /\ write_thread' = [write_thread EXCEPT !.pc = "test"]
    /\ UNCHANGED << stop_event, read_queue, write_queue, read_thread, requests,
                    media, dirs, stopper, loop, put_log, probe, social >>

\* A failure that the loop survives: the WriteJob is dropped and the next
\* taken.
WriteRaiseSwallowed ==
    /\ write_thread.pc = "write"
    /\ write_thread' = [write_thread EXCEPT !.pc = "test"]
    /\ UNCHANGED << stop_event, read_queue, write_queue, read_thread, requests,
                    media, dirs, disk, stopper, loop, put_log, probe, social >>

\* func: open or write raises OSError (the path cannot be opened, or the disk
\* fails); the exception leaves func, the loop and run(), and the thread ends.
WriteRaise ==
    /\ write_thread.pc = "write"
    /\ write_thread' = [write_thread EXCEPT !.pc = "raised"]
    /\ UNCHANGED << stop_event, read_queue, write_queue, read_thread, requests,
                    media, dirs, disk, stopper, loop, put_log, probe, social >>

(* ---------------------------- stop_threads ---------------------------- *)

\* stop_threads: `cls.__stop_event.set()`, run by the lifespan on the
\* event-loop thread, which it keeps until it returns.
StopSet ==
    /\ loop = "free"
    /\ stopper.pc = "idle"
    /\ stop_event' = TRUE
    /\ stopper' = [stopper EXCEPT !.pc = "read_put"]
    /\ loop' = "stop"
    /\ UNCHANGED << read_queue, write_queue, read_thread, write_thread, requests,
                    media, dirs, disk, put_log, probe, social >>

\* A stop that empties the read queue to make room for its sentinel.
StopReadPutFlush ==
    /\ stopper.pc = "read_put"
    /\ read_queue' = << None >>
    /\ stopper' = [stopper EXCEPT !.pc = "read_join"]
    /\ UNCHANGED << stop_event, write_queue, read_thread, write_thread, requests,
                    media, dirs, disk, loop, put_log, probe, social >>

\* ReadThread.stop: `self.queue.put(None)`
StopReadPut ==
    /\ stopper.pc = "read_put"
    /\ HasSlot(read_queue, ReadCap)
    /\ read_queue' = Append(read_queue, None)
    /\ stopper' = [stopper EXCEPT !.pc = "read_join"]
    /\ UNCHANGED << stop_event, write_queue, read_thread, write_thread, requests,
                    media, dirs, disk, loop, put_log, probe, social >>

\* The ReadThread is in a step that may last longer than the timeout of
\* join: a read, or a wait on a queue. The loop test and a get or put that
\* need not wait end well within it.
ReadHeld ==
    \/ read_thread.pc = "gather"
    \/ read_thread.pc = "put" /\ ~HasSlot(write_queue, WriteCap)
    \/ read_thread.pc = "get" /\ read_queue = << >>

\* The same of the WriteThread: a disk write, or a wait on its queue.
WriteHeld ==
    \/ write_thread.pc = "write"
    \/ write_thread.pc = "get" /\ write_queue = << >>

\* ReadThread.stop: `self.join(timeout)` returns, the thread having ended or
\* the timeout having passed.
StopReadJoin ==
    /\ stopper.pc = "read_join"
    /\ \/ /\ Terminated(read_thread)
          /\ stopper' = [stopper EXCEPT !.pc = "write_put"]
       \/ /\ ReadHeld
          /\ stopper' = [pc |-> "write_put",
                         timed_out |-> stopper.timed_out \cup {"read"}]
    /\ UNCHANGED << stop_event, read_queue, write_queue, read_thread, write_thread,
                    requests, media, dirs, disk, loop, put_log, probe, social >>

\* WriteThread.stop: `self.queue.put(None)`
StopWritePut ==
    /\ stopper.pc = "write_put"
    /\ HasSlot(write_queue, WriteCap)
    /\ write_queue' = Append(write_queue, None)
    /\ stopper' = [stopper EXCEPT !.pc = "write_join"]
    /\ UNCHANGED << stop_event, read_queue, read_thread, write_thread, requests,
                    media, dirs, disk, loop, put_log, probe, social >>

\* WriteThread.stop: `self.join(timeout)` returns; stop_threads returns.
StopWriteJoin ==
    /\ stopper.pc = "write_join"
    /\ \/ /\ Terminated(write_thread)
          /\ stopper' = [stopper EXCEPT !.pc = "returned"]
       \/ /\ WriteHeld
          /\ stopper' = [pc |-> "returned",
                         timed_out |-> stopper.timed_out \cup {"write"}]
    /\ loop' = "free"
    /\ UNCHANGED << stop_event, read_queue, write_queue, read_thread, write_thread,
                    requests, media, dirs, disk, put_log, probe, social >>

(* ------------------- users, tweets and likes: requests ---------------- *)

\* The tables as a request finds them.
Tables == [users |-> users, tweets |-> tweets, likes |-> likes]

\* map[key] = value
MapPut(map, key, value) ==
    [k \in (DOMAIN map) \cup {key} |-> IF k = key THEN value ELSE map[k]]

\* map.pop(key)
MapPop(map, key) == [k \in (DOMAIN map) \ {key} |-> map[k]]

\* f"{message} '{value}'{rest}"; the messages of the program quote the value
\* with back quotes, written ' here.
Quoted(message, value, rest) == message \o " '" \o ToString(value) \o "'" \o rest

\* NotFoundError(f"Tweet with id '{tweet_id}' not found")
TweetNotFound(tweet_id) == Quoted("Tweet with id", tweet_id, " not found")

\* NotFoundError(f"User with ID '{user_id}' not found")
UserNotFound(user_id) == Quoted("User with ID", user_id, " not found")

\* The body of the response to an exception that no handler is registered for.
InternalServerError == "Internal Server Error"

\* The requests of the users endpoints and the id each may carry in its path.
FollowOperations == {"follow", "unfollow"} \X TargetIds

\* The same of the tweets endpoints; a new tweet has no id yet.
TweetOperations ==
    ({"like", "unlike", "delete_tweet"} \X TweetIds) \cup {<< "create_tweet", 0 >>}

Answered(c) == calls[c].pc \in {"idle", "returned"}

\* The create_tweet requests on their way.
Creating == { c \in Clients : ~Answered(c) /\ calls[c].op = "create_tweet" }

\* Client c sends a request with the api key of `user`.
StartCall(c, op, user, target) ==
    /\ Answered(c)
    /\ op = "create_tweet" => tweet_seq + Cardinality(Creating) < MaxTweets
    /\ calls' = [calls EXCEPT ![c] =
                    [pc |-> "auth", op |-> op, user |-> user, target |-> target,
                     status |-> 0, detail |-> "", me |-> None, found |-> None,
                     pre |-> Tables]]
    /\ UNCHANGED << pipeline, users, tweets, tweet_seq, likes >>

\* The response of the request of client c.
Answer(c, status, detail) ==
    calls' = [calls EXCEPT ![c] =
                 [@ EXCEPT !.pc = "returned", !.status = status, !.detail = detail,
                           !.me = None, !.found = None, !.pre = None]]

\* APIKeyQuery.__call__: get_user_by_api_key loads the caller's row, which
\* becomes request.user.
Authenticate(c) ==
    /\ calls[c].pc = "auth"
    /\ calls' = [calls EXCEPT ![c] =
                    [@ EXCEPT !.pc = "run", !.me = users[calls[c].user]]]
    /\ UNCHANGED << pipeline, users, tweets, tweet_seq, likes >>

(* --------------------------- UserController --------------------------- *)

\* __get_target_user: the status it raises with, or 0 when it returns the row.
GetTargetUser(user_id, target_user_id) ==
    IF user_id = target_user_id
    THEN 400
    ELSE IF target_user_id \notin DOMAIN users THEN 404 ELSE 0

\* A follow that forgets the caller's own row.
FollowedOneSided(user, target_user) ==
    [user |-> user,
     target_user |-> [target_user EXCEPT
                         !.followers = MapPut(@, Str(user.id), user.name)]]

\* add_follow_user: the two rows after
\* `user.following[...] = target_user.name` and
\* `target_user.followers[...] = user.name`.
Followed(user, target_user) ==
    [user |-> [user EXCEPT
                  !.following = MapPut(@, Str(target_user.id), target_user.name)],
     target_user |-> [target_user EXCEPT
                         !.followers = MapPut(@, Str(user.id), user.name)]]

\* delete_follow_user: the two rows after the two pop.
Unfollowed(user, target_user) ==
    [user |-> [user EXCEPT !.following = MapPop(@, Str(target_user.id))],
     target_user |-> [target_user EXCEPT !.followers = MapPop(@, Str(user.id))]]

\* A follow that never finds the caller among the followers.
IsFollowerNever(user_id, target_user) == FALSE

\* `str_user_id in target_user.followers`
IsFollower(user_id, target_user) == Str(user_id) \in DOMAIN target_user.followers

\* add_follow_user up to `await self.user_manager.update`.
AddFollowUser(c) ==
    /\ calls[c].pc = "run"
    /\ calls[c].op = "follow"
    /\ LET call == calls[c]
           raised == GetTargetUser(call.user, call.target)
       IN  IF raised = 400
           THEN Answer(c, 400, Quoted("It's your user ID", call.target, ""))
           ELSE IF raised = 404
           THEN Answer(c, 404, UserNotFound(call.target))
           ELSE IF IsFollower(call.user, users[call.target])
           THEN Answer(c, 400, Quoted("You already followed user with user_id",
                                   call.target, ""))
           ELSE LET rows == Followed(call.me, users[call.target])
                IN  calls' = [calls EXCEPT ![c] =
                                 [@ EXCEPT !.pc = "update", !.me = rows.user,
                                           !.found = rows.target_user]]
    /\ UNCHANGED << pipeline, users, tweets, tweet_seq, likes >>

\* delete_follow_user up to `await self.user_manager.update`; a pop of a key
\* that is not there raises KeyError.
DeleteFollowUser(c) ==
    /\ calls[c].pc = "run"
    /\ calls[c].op = "unfollow"
    /\ LET call == calls[c]
           raised == GetTargetUser(call.user, call.target)
       IN  IF raised = 400
           THEN Answer(c, 400, Quoted("It's your user ID", call.target, ""))
           ELSE IF raised = 404
           THEN Answer(c, 404, UserNotFound(call.target))
           ELSE IF ~IsFollower(call.user, users[call.target])
           THEN Answer(c, 400, Quoted("You are not followed user with user_id",
                                   call.target, ""))
           ELSE IF Str(call.target) \notin DOMAIN call.me.following
           THEN Answer(c, 500, InternalServerError)
           ELSE LET rows == Unfollowed(call.me, users[call.target])
                IN  calls' = [calls EXCEPT ![c] =
                                 [@ EXCEPT !.pc = "update", !.me = rows.user,
                                           !.found = rows.target_user]]
    /\ UNCHANGED << pipeline, users, tweets, tweet_seq, likes >>

\* user_manager.update(async_session, [user.to_dict(), target_user.to_dict()]):
\* both rows are written whole, as the request holds them; the route returns.
UpdateUsers(c) ==
    /\ calls[c].pc = "update"
    /\ users' = [users EXCEPT ![calls[c].user] = calls[c].me,
                              ![calls[c].target] = calls[c].found]
    /\ Answer(c, IF calls[c].op = "follow" THEN 201 ELSE 200, "")
    /\ UNCHANGED << pipeline, tweets, tweet_seq, likes >>

(* --------------------------- LikeController --------------------------- *)

\* tweet_manager.exists(async_session, [Tweet.id == tweet_id])
TweetExists(tweet_id) == \E tweet \in tweets : tweet.id = tweet_id

\* Like(user_id=user_id, tweet_id=tweet_id)
LikeRow(tweet_id, user_id) == [user_id |-> user_id, tweet_id |-> tweet_id]

\* delete(table).where(...) on `likes`, `deleted` the rows that match: the
\* rows that stay.
KeepRows(deleted) == [row \in (DOMAIN likes) \ deleted |-> likes[row]]

\* A check that never finds the like.
LikeExistsNever(tweet_id, user_id) == FALSE

\* like_manager.exists(async_session,
\*     [Like.tweet_id == tweet_id, Like.user_id == user_id])
LikeExists(tweet_id, user_id) == BagIn(LikeRow(tweet_id, user_id), likes)

\* add_like and delete_like: `await self.__check_tweet_exists`.
CheckTweetExists(c) ==
    /\ calls[c].pc = "run"
    /\ calls[c].op \in {"like", "unlike"}
    /\ IF TweetExists(calls[c].target)
       THEN calls' = [calls EXCEPT ![c].pc =
                         IF calls[c].op = "like" THEN "exists" ELSE "delete"]
       ELSE Answer(c, 404, TweetNotFound(calls[c].target))
    /\ UNCHANGED << pipeline, users, tweets, tweet_seq, likes >>

\* add_like: `like = await self.like_manager.exists(...)` and the test of it.
AddLikeExists(c) ==
    /\ calls[c].pc = "exists"
    /\ IF LikeExists(calls[c].target, calls[c].user)
       THEN Answer(c, 400, "Tweet already liked")
       ELSE calls' = [calls EXCEPT ![c].pc = "add"]
    /\ UNCHANGED << pipeline, users, tweets, tweet_seq, likes >>

\* The constraints of table `likes`: _user_tweet_uc, and the foreign key to
\* tweets.id.
LikeAllowed(tweet_id, user_id) ==
    /\ ~LikeExists(tweet_id, user_id)
    /\ TweetExists(tweet_id)

\* add_like: `await self.like_manager.add(...)`; an insert the constraints
\* refuse raises IntegrityError.
AddLike(c) ==
    /\ calls[c].pc = "add"
    /\ IF LikeAllowed(calls[c].target, calls[c].user)
       THEN /\ likes' = likes (+) SetToBag({LikeRow(calls[c].target, calls[c].user)})
            /\ Answer(c, 201, "")
       ELSE /\ likes' = likes
            /\ Answer(c, 500, InternalServerError)
    /\ UNCHANGED << pipeline, users, tweets, tweet_seq >>

\* delete_like: `like = await self.like_manager.delete(...)`, which is
\* bool(result.rowcount), and the test of it.
DeleteLike(c) ==
    /\ calls[c].pc = "delete"
    /\ calls[c].op = "unlike"
    /\ LET deleted == { LikeRow(calls[c].target, calls[c].user) }
       IN  /\ likes' = KeepRows(deleted)
           /\ IF LikeExists(calls[c].target, calls[c].user)
              THEN Answer(c, 200, "")
              ELSE Answer(c, 400, "This tweet not liked")
    /\ UNCHANGED << pipeline, users, tweets, tweet_seq >>

(* -------------------------- TweetController --------------------------- *)

\* create_tweet of a tweet without attachments: tweet_manager.add.
CreateTweet(c) ==
    /\ calls[c].pc = "run"
    /\ calls[c].op = "create_tweet"
    /\ tweet_seq' = tweet_seq + 1
    /\ tweets' = tweets \cup {[id |-> tweet_seq + 1, author_id |-> calls[c].user]}
    /\ Answer(c, 201, "")
    /\ UNCHANGED << pipeline, users, likes >>

\* tweet_manager.get_tweet_with_author_id: the row, or None.
GetTweetWithAuthorId(tweet_id) ==
    IF TweetExists(tweet_id)
    THEN CHOOSE tweet \in tweets : tweet.id = tweet_id
    ELSE None

\* A delete that asks for no owner.
IsOwnerAlways(tweet, user_id) == TRUE

\* delete_tweet: `tweet.author.id != user.id`, negated
IsOwner(tweet, user_id) == tweet.author_id = user_id

\* delete_tweet up to `await self.tweet_manager.delete`: on None,
\* `tweet.author` raises AttributeError, which no handler catches.
DeleteTweetGet(c) ==
    /\ calls[c].pc = "run"
    /\ calls[c].op = "delete_tweet"
    /\ LET tweet == GetTweetWithAuthorId(calls[c].target)
       IN  IF tweet = None
           THEN Answer(c, 500, InternalServerError)
           ELSE IF ~IsOwner(tweet, calls[c].user)
           THEN Answer(c, 403, "Wrong owner")
           ELSE calls' = [calls EXCEPT ![c].pc = "delete"]
    /\ UNCHANGED << pipeline, users, tweets, tweet_seq, likes >>

\* delete_tweet: `res = await self.tweet_manager.delete(...)` and the test of
\* it; the likes of a deleted tweet go with it (ondelete="CASCADE").
DeleteTweet(c) ==
    /\ calls[c].pc = "delete"
    /\ calls[c].op = "delete_tweet"
    /\ LET cascade == { row \in DOMAIN likes : row.tweet_id = calls[c].target }
       IN  /\ tweets' = { tweet \in tweets : tweet.id # calls[c].target }
           /\ likes' = KeepRows(cascade)
           /\ IF TweetExists(calls[c].target)
              THEN Answer(c, 200, "")
              ELSE Answer(c, 404, TweetNotFound(calls[c].target))
    /\ UNCHANGED << pipeline, users, tweet_seq >>

(* ------------------ the users and tweets endpoints -------------------- *)

\* The first client, which sends its requests one after another.
Caller == 1

SerialFollowStart ==
    \E user \in UserIds, operation \in FollowOperations :
        StartCall(Caller, operation[1], user, operation[2])

SerialTweetStart ==
    \E user \in UserIds, operation \in TweetOperations :
        StartCall(Caller, operation[1], user, operation[2])

Auth == \E c \in Clients : Authenticate(c)

Follow == \E c \in Clients : AddFollowUser(c) \/ DeleteFollowUser(c) \/ UpdateUsers(c)

Like ==
    \E c \in Clients :
        CheckTweetExists(c) \/ AddLikeExists(c) \/ AddLike(c) \/ DeleteLike(c)

Tweet == \E c \in Clients : CreateTweet(c) \/ DeleteTweetGet(c) \/ DeleteTweet(c)

\* The users endpoints under follow and unfollow requests sent one after
\* another.
SerialFollowNext ==
    \/ SerialFollowStart
    \/ Auth
    \/ Follow

SerialFollowSpec == Init /\ [][SerialFollowNext]_vars

\* The tweets endpoints under requests sent one after another.
SerialTweetNext ==
    \/ SerialTweetStart
    \/ Auth
    \/ Like
    \/ Tweet

SerialTweetSpec == Init /\ [][SerialTweetNext]_vars

\* A client sends its one follow or unfollow request, whatever the requests
\* of the others are doing.
FollowStart ==
    \E c \in Clients, user \in UserIds, operation \in FollowOperations :
        /\ calls[c].pc = "idle"
        /\ StartCall(c, operation[1], user, operation[2])

\* The users endpoints under requests that run concurrently, one of each
\* client: the coroutines change over at their awaits.
ConcurrentFollowNext ==
    \/ FollowStart
    \/ Auth
    \/ Follow

ConcurrentFollowSpec == Init /\ [][ConcurrentFollowNext]_vars

(* --------------------------- specification ---------------------------- *)

Request == \E form \in Forms : SaveMedia(form)

Update == \E r \in 1..Len(requests) : UpdateMediaItems(r)

Block == \E r \in 1..Len(requests) : PutWait(r)

Submit == \E r \in 1..Len(requests) : Put(r)

ReadStep == ReadTest \/ ReadGet \/ ReadGather \/ ReadRaise \/ ReadPut

WriteStep == WriteTest \/ WriteGet \/ WriteFile \/ WriteRaise

StopStep == StopReadPut \/ StopReadJoin \/ StopWritePut \/ StopWriteJoin

Next ==
    \/ Request
    \/ Update
    \/ Block
    \/ Submit
    \/ ReadStep
    \/ WriteStep
    \/ StopSet
    \/ StopStep

Spec == Init /\ [][Next]_vars

\* The threads count their late gets.
HistoryInit == PipelineStart(TRUE) /\ probe = IdleProbe /\ SocialInit

\* The pipeline and its stop while no read and no disk write fails.
HistoryNext ==
    \/ Request
    \/ Update
    \/ Block
    \/ Submit
    \/ ReadTest
    \/ ReadGet
    \/ ReadGather
    \/ ReadPut
    \/ WriteTest
    \/ WriteGet
    \/ WriteFile
    \/ StopSet
    \/ StopStep

HistorySpec == HistoryInit /\ [][HistoryNext]_vars

\* The scheduling the program runs under: a thread that can take a step takes
\* one, a read and a disk write end, a coroutine that can resume is resumed,
\* and stop_threads, once called, goes on. Nothing makes a request arrive or
\* the lifespan end.
Fairness ==
    /\ WF_vars(ReadStep)
    /\ WF_vars(WriteStep)
    /\ WF_vars(StopStep)
    /\ WF_vars(Update)
    /\ WF_vars(Block \/ Submit)

FairSpec == Spec /\ Fairness

\* The pipeline while the lifespan lasts: stop_threads is not called.
RunningNext ==
    \/ Request
    \/ Update
    \/ Block
    \/ Submit
    \/ ReadStep
    \/ WriteStep

RunningSpec == Init /\ [][RunningNext]_vars /\ Fairness

(* ---------------- uploads of every kind of request ------------------- *)

RECURSIVE Decimal(_)
\* str(n) of a natural number
Decimal(n) ==
    IF n < 10
    THEN << DecimalDigits[n + 1] >>
    ELSE Append(Decimal(n \div 10), DecimalDigits[(n % 10) + 1])

\* form.getlist("file") of the uploads whose names are looked at: a file
\* without a name, one named "/", one with a separator inside its name, and a
\* plainly named one.
UploadForms ==
    { << Upload(<< >>) >>,
      << Upload(<< Slash >>) >>,
      << Upload(<< "a", Backslash, "b" >>) >>,
      PlainForm(1) }

UploadRequest == \E form \in UploadForms : UploadMedia(PlainHeaders, form)

\* The pipeline while the lifespan lasts, under uploads of every name.
UploadNext ==
    \/ UploadRequest
    \/ Update
    \/ Block
    \/ Submit
    \/ ReadStep
    \/ WriteStep

UploadSpec == Init /\ [][UploadNext]_vars

\* Headers the middleware turns down: no content type, an empty or a foreign
\* one, no content length, an empty or non-numeric one, one past the maximum.
BadHeaders ==
    { Headers(Absent, << "1", "2" >>),
      Headers(<< >>, << "1", "2" >>),
      Headers(TextPlain, << "1", "2" >>),
      Headers(MultipartFormData, Absent),
      Headers(MultipartFormData, << >>),
      Headers(MultipartFormData, << "1", "a" >>),
      Headers(MultipartFormData, Decimal(MAX_MEDIA_SIZE + 1)) }

\* form.getlist("file") of the forms that carry no file or a part that is
\* none, and of a plain upload.
CheckedForms ==
    { << >>, << TextPart >>, << Upload(<<"a">>), TextPart >>, PlainForm(1) }

\* The requests the validation is tried on: each of these forms under good
\* headers, the largest body allowed under a content type that names its
\* boundary, and a plain form under each of the bad headers.
CheckedInputs ==
    { << PlainHeaders, form >> : form \in CheckedForms }
        \cup { << Headers(MultipartFormData \o << ";", "b", "=", "x" >>,
                          Decimal(MAX_MEDIA_SIZE)),
                  PlainForm(1) >> }
        \cup { << headers, PlainForm(1) >> : headers \in BadHeaders }

CheckedRequest == \E input \in CheckedInputs : UploadMedia(input[1], input[2])

\* The pipeline from start to shutdown, under requests valid and invalid.
ValidationNext ==
    \/ CheckedRequest
    \/ Update
    \/ Block
    \/ Submit
    \/ ReadStep
    \/ WriteStep
    \/ StopSet
    \/ StopStep

ValidationSpec == Init /\ [][ValidationNext]_vars

(* ------------------- the sanitisation on its own ---------------------- *)

\* "abc..." of length n
Ruler(n) == [i \in 1..n |-> Alphabet[((i - 1) % 26) + 1]]

\* The filenames the sanitisation is tried on: empty, short, around and past
\* the limit, with a separator at the head, in the middle or at the end, of
\* separators only, and the two dot names.
Filenames ==
    { Ruler(n) : n \in 0..MaxNameLen }
        \cup { [Ruler(n) EXCEPT ![p] = c] :
                  n \in 1..MaxNameLen, p \in {1, 2}, c \in {Slash, Backslash} }
        \cup { [[Ruler(n) EXCEPT ![n] = c] EXCEPT ![(n + 1) \div 2] = Slash] :
                  n \in 1..MaxNameLen, c \in {Slash, Backslash} }
        \cup { Repeat(Slash, n) : n \in 1..3 }
        \cup { Dot, DotDot }

NameInit ==
    /\ PipelineInit
    /\ probe \in { [filename |-> n, name |-> << >>, done |-> FALSE] : n \in Filenames }
    /\ SocialInit

\* `Media(name=self.__refactor_filename(file.filename))` of __create_media_items
Refactor ==
    /\ ~probe.done
    /\ \E uuid \in UuidHexes :
          probe' = [probe EXCEPT !.name = RefactorFilename(probe.filename, uuid),
                                 !.done = TRUE]
    /\ UNCHANGED << stop_event, read_queue, write_queue, read_thread, write_thread,
                    requests, media, dirs, disk, stopper, loop, put_log, social >>

NameNext == Refactor

NameSpec == NameInit /\ [][NameNext]_vars

(* ------------------------------- claims ------------------------------- *)

Received == 1..Len(requests)

\* The ReadThread holds the ReadJob of request r.
Taken(r) ==
    /\ r \in Received
    /\ read_thread.pc \in {"gather", "put"}
    /\ read_thread.item.medias = requests[r].media_items

\* The pairs of the ReadJob of request r, as WriteJobs, in the job's order.
Pairs(r) ==
    [k \in 1..Len(requests[r].media_items) |->
        [tag |-> "job", media |-> requests[r].media_items[k], file |-> Content(r, k)]]

\* The WriteJobs put on the write queue that carry bytes of request r.
LogOf(r) ==
    LET OfR(w) == w.file[1] = r
    IN  SelectSeq(put_log, OfR)

Forwarded(r) == r \in Received /\ LogOf(r) = Pairs(r)

IsPrefix(s, t) == Len(s) <= Len(t) /\ s = SubSeq(t, 1, Len(s))

C2_ClosedRejects ==
    /\ [](\A r \in Received :
             requests[r].closed =>
                /\ requests[r].pc = "returned"
                /\ requests[r].media_items = << >>
                /\ requests[r].result \in {"queue_closed", "empty_field"}
                /\ requests[r].form # << >> => requests[r].result = "queue_closed")
    /\ [][(stop_event /\ Len(requests') > Len(requests)) =>
             /\ media' = media
             /\ dirs' = dirs
             /\ read_queue' = read_queue]_vars

\* A call that carries an upload was made after stop_threads and turned down.
C2_Witness ==
    \E r \in Received :
        /\ requests[r].closed
        /\ \E k \in 1..Len(requests[r].form) : requests[r].form[k].upload
        /\ requests[r].result = "queue_closed"

\* C3: no submission returns success with its ReadJob put on the read queue
\* after the stop flag was set.
C3_NoLateAccept ==
    \A r \in Received : requests[r].result = "created" => ~requests[r].late

\* C4: once stop_threads has set the flag, both threads leave their loops.
C4_WorkersExit ==
    stop_event ~> (Terminated(read_thread) /\ Terminated(write_thread))

\* C5: stop_threads, once called, returns.
C5_StopReturns ==
    (stopper.pc # "idle") ~> (stopper.pc = "returned")

\* C6: once stop_threads has returned, neither thread takes an item from its
\* queue any more, whether its join ended or timed out.
C6_NoGetAfterStop ==
    [][stopper.pc = "returned" =>
          /\ ~(read_thread.pc = "get" /\ read_thread'.pc # "get")
          /\ ~(write_thread.pc = "get" /\ write_thread'.pc # "get")
          /\ Len(read_queue') >= Len(read_queue)
          /\ Len(write_queue') >= Len(write_queue)]_vars

\* stop_threads has returned after a join that timed out, the thread it gave
\* up on still in its job.
C6_Witness ==
    /\ stopper.pc = "returned"
    /\ stopper.timed_out # {}
    /\ \/ "read" \in stopper.timed_out /\ read_thread.pc \in {"gather", "put"}
       \/ "write" \in stopper.timed_out /\ write_thread.pc = "write"

\* C7: a put on the full read queue keeps its caller until a slot is free and
\* then succeeds; with both threads running, no stop and no failure, every
\* ReadJob submitted is taken by the ReadThread.
C7_Backpressure ==
    /\ [][\A r \in Received :
             (requests[r].pc = "blocked" /\ requests'[r].pc # "blocked") =>
                /\ Len(read_queue) < ReadCap
                /\ requests'[r].result = "created"
                /\ Len(read_queue') = Len(read_queue) + 1
                /\ read_queue'[Len(read_queue')].medias = requests[r].media_items]_vars
    /\ \A r \in 1..NRequests :
          (r \in Received /\ requests[r].pc \in {"put", "blocked"})
             ~> (\/ Taken(r)
                 \/ stop_event
                 \/ read_thread.pc = "raised"
                 \/ write_thread.pc = "raised")

\* The job of a request that had to wait for a slot is with the ReadThread.
C7_Witness ==
    \E r \in Received : requests[r].waited /\ Taken(r)

\* C8: a submission whose ReadJob has a free slot in the read queue can put it
\* and return at once, whatever the two threads are doing.
C8_ReturnsAtOnce ==
    \A r \in Received :
        /\ (requests[r].pc = "put" /\ loop = "free" /\ Len(read_queue) < ReadCap)
              => ENABLED Put(r)
        /\ (requests[r].pc = "blocked" /\ Len(read_queue) < ReadCap)
              => ENABLED Put(r)
        /\ requests[r].result = "created" => requests[r].pc = "returned"

\* A submission has returned its rows while neither thread has taken a step
\* and nothing is on the disk.
C8_Witness ==
    /\ \E r \in Received : requests[r].result = "created"
    /\ read_thread.pc = "test"
    /\ read_thread.item = None
    /\ write_thread.pc = "test"
    /\ write_thread.item = None
    /\ disk = << >>

\* The WriteThread is through with the WriteJob of row id.
Processed(id) ==
    /\ \E n \in 1..Len(put_log) : put_log[n].media = id
    /\ \A n \in 1..Len(write_queue) :
          write_queue[n] # None => write_queue[n].media # id
    /\ ~(write_thread.pc \in {"write", "raised"} /\ write_thread.item.media = id)

Plain(filename) ==
    /\ filename # << >>
    /\ Len(filename) <= filename_max_length
    /\ \A i \in 1..Len(filename) : ~IsSeparator(filename[i])

\* C9: an accepted upload with a plain filename gets that filename as name and
\* <media-root>/<id>/<name> as destination, and once the WriteThread is through
\* with its WriteJob the file there holds the uploaded bytes.
C9_RoundTrip ==
    \A r \in Received :
        \A k \in 1..Len(requests[r].media_items) :
            LET id == requests[r].media_items[k]
                filename == requests[r].form[k].filename
                destination == MEDIA_DIR \o << Str(id), filename >>
            IN  Plain(filename) =>
                   /\ media[id].name = filename
                   /\ media[id].file # Null => media[id].file = destination
                   /\ Processed(id) =>
                         /\ destination \in DOMAIN disk
                         /\ disk[destination] = Content(r, k)

\* C10: every name the orchestrator produces has at most 20 characters.
C10_NameBound ==
    probe.done => Len(probe.name) <= filename_max_length

HasSeparator(filename) == \E i \in 1..Len(filename) : IsSeparator(filename[i])

\* C11: an upload whose filename is empty gets a StorageRecord whose name is a
\* generated identifier: not empty, and the name of no other record.
C11_FreshName ==
    \A r \in Received :
        \A k \in 1..Len(requests[r].form) :
            (requests[r].form[k].upload /\ requests[r].form[k].filename = << >>) =>
                /\ Len(requests[r].media_items) = Len(requests[r].form)
                /\ LET id == requests[r].media_items[k]
                   IN  /\ media[id].name # << >>
                       /\ \A other \in 1..Len(media) :
                             other # id => media[other].name # media[id].name

\* C12: the StorageRecord of a filename with path separators has a name free
\* of them and not empty, and its destination is a file inside the record's
\* own directory, never that directory.
C12_SeparatorsStripped ==
    \A r \in Received :
        \A k \in 1..Len(requests[r].media_items) :
            LET id == requests[r].media_items[k]
            IN  HasSeparator(requests[r].form[k].filename) =>
                   /\ ~HasSeparator(media[id].name)
                   /\ media[id].name # << >>
                   /\ media[id].file # Null =>
                         /\ media[id].file # MediaItemDir(id)
                         /\ Parent(media[id].file) = MediaItemDir(id)

\* C13: a filename that, its path separators removed, is longer than 20
\* characters gets as name a prefix of it, then "__", then a suffix of it, of
\* at most 20 characters in all.
C13_CutOffShape ==
    probe.done =>
        LET original == RemoveSeparators(probe.filename)
            length == Len(original)
        IN  length > filename_max_length =>
               /\ Len(probe.name) <= filename_max_length
               /\ \E p, q \in 1..length :
                     probe.name = SubSeq(original, 1, p)
                                     \o << "_", "_" >>
                                     \o SubSeq(original, length - q + 1, length)

\* A filename with separators that is too long without them has been cut.
C13_Witness ==
    /\ probe.done
    /\ HasSeparator(probe.filename)
    /\ Len(RemoveSeparators(probe.filename)) > filename_max_length
    /\ Len(probe.name) = filename_max_length

\* C14: a step of stop_threads leaves every item of both queues where it is:
\* all it does to the shared state is set the stop flag, append one sentinel
\* to the read queue and append one sentinel to the write queue.
C14_StopFrame ==
    [][stopper' # stopper =>
          /\ stop_event' = TRUE
          /\ stopper.pc # "idle" => stop_event' = stop_event
          /\ read_queue' = IF stopper.pc = "read_put"
                           THEN Append(read_queue, None)
                           ELSE read_queue
          /\ write_queue' = IF stopper.pc = "write_put"
                            THEN Append(write_queue, None)
                            ELSE write_queue
          /\ UNCHANGED << read_thread, write_thread, requests, media, dirs, disk,
                          put_log >>]_vars

\* stop_threads has put its sentinel on the read queue while a WriteJob waits
\* in the write queue and the ReadThread holds a job.
C14_Witness ==
    /\ stopper.pc = "read_join"
    /\ read_queue = << None >>
    /\ write_queue # << >>
    /\ write_queue[1] # None
    /\ read_thread.pc \in {"gather", "put"}

\* The content type is sent and its media type is multipart/form-data.
IsMultipart(content_type) ==
    /\ content_type # Absent
    /\ Len(content_type) >= Len(MultipartFormData)
    /\ SubSeq(content_type, 1, Len(MultipartFormData)) = MultipartFormData

\* The results that are answers of the validation.
ValidationResults ==
    { "missing_header", "unsupported_media_type", "length_required",
      "request_entity_too_large", "empty_field", "file_error" }

\* C15: an upload request with a missing or foreign content type, a missing,
\* non-numeric or too large content length, no part in field `file` or a part
\* there that is no uploaded file is answered 422, 415, 411 or 413 (the part
\* that is no file: when the request is looked at, the stop flag unset), and
\* the request so answered creates no row and no directory and puts nothing on
\* the read queue.
C15_ValidationRejects ==
    /\ [](\A r \in Received :
             LET request == requests[r]
                 content_type == request.headers.content_type
                 content_length == request.headers.content_length
                 code == StatusCode(request.result)
             IN  /\ content_type = Absent => code = 422
                 /\ (content_type # Absent /\ ~IsMultipart(content_type)) => code = 415
                 /\ (IsMultipart(content_type) /\ content_length = Absent) => code = 411
                 /\ (/\ IsMultipart(content_type)
                     /\ content_length # Absent
                     /\ ~IsNumeric(content_length)) => code = 411
                 /\ (/\ IsMultipart(content_type)
                     /\ content_length # Absent
                     /\ IsNumeric(content_length)
                     /\ IntOf(content_length) > MAX_MEDIA_SIZE) => code = 413
                 /\ (Dispatch(request.headers) = "call_next" /\ request.form = << >>)
                       => code = 422
                 /\ (/\ Dispatch(request.headers) = "call_next"
                     /\ ~request.closed
                     /\ \E k \in 1..Len(request.form) : ~request.form[k].upload)
                       => code = 422
                 /\ request.result \in ValidationResults =>
                       /\ code \in {422, 415, 411, 413}
                       /\ request.pc = "returned"
                       /\ request.media_items = << >>)
    /\ [][(/\ Len(requests') > Len(requests)
           /\ requests'[Len(requests')].result \in ValidationResults) =>
             /\ media' = media
             /\ dirs' = dirs
             /\ disk' = disk
             /\ read_queue' = read_queue
             /\ write_queue' = write_queue]_vars

\* After an upload that was accepted, a request with a foreign content type
\* or one whose part is no file has been turned down.
C15_Witness ==
    /\ Len(requests) = NRequests
    /\ requests[1].result = "created"
    /\ \E r \in Received :
          \/ requests[r].result = "unsupported_media_type"
          \/ requests[r].result = "file_error"

\* The request of client c is answered in this step.
Returns(c) == ~Answered(c) /\ calls'[c].pc = "returned"

\* User a is among the followers that the row of user b holds.
InFollowers(a, b) == Str(a) \in DOMAIN users[b].followers

\* User b is among the following that the row of user a holds.
InFollowing(b, a) == Str(b) \in DOMAIN users[a].following

\* C16: under follow and unfollow requests sent one after another, successful
\* or not, user a is in the followers of user b exactly when b is in the
\* following of a.
C16_FollowSymmetric ==
    \A a \in UserIds, b \in UserIds : InFollowers(a, b) <=> InFollowing(b, a)

\* An unfollow has succeeded and somebody still follows somebody.
C16_Witness ==
    /\ calls[Caller].pc = "returned"
    /\ calls[Caller].op = "unfollow"
    /\ calls[Caller].status = 200
    /\ \E a \in UserIds, b \in UserIds : InFollowers(a, b) /\ InFollowing(b, a)

\* The request that client c is answered for in this step was a `op` of
\* tweet `tweet_id` by `user`.
ReturnsOf(c, op, user, tweet_id) ==
    /\ Returns(c)
    /\ calls[c].op = op
    /\ calls[c].user = user
    /\ calls[c].target = tweet_id

\* C17: under like, unlike, create and delete requests sent one after another
\* no (user, tweet) pair has more than one like; a like of a tweet that the
\* user likes when the request arrives is answered 400 'Tweet already liked',
\* an unlike of a tweet that the user does not like then, 400 'This tweet not
\* liked'; and a like or unlike answered with an error leaves the likes as
\* the request found them.
C17_OneLikePerPair ==
    [][/\ \A row \in DOMAIN likes' : likes'[row] = 1
       /\ \A c \in Clients, user \in UserIds, tweet_id \in TweetIds :
             LET before == calls[c].pre
                 liked == BagIn(LikeRow(tweet_id, user), before.likes)
                 there == \E tweet \in before.tweets : tweet.id = tweet_id
             IN  /\ (ReturnsOf(c, "like", user, tweet_id) /\ liked) =>
                       /\ calls'[c].status = 400
                       /\ calls'[c].detail = "Tweet already liked"
                 /\ (ReturnsOf(c, "unlike", user, tweet_id) /\ there /\ ~liked) =>
                       /\ calls'[c].status = 400
                       /\ calls'[c].detail = "This tweet not liked"
                 /\ (/\ \/ ReturnsOf(c, "like", user, tweet_id)
                         \/ ReturnsOf(c, "unlike", user, tweet_id)
                     /\ calls'[c].status >= 400) =>
                       /\ likes = before.likes
                       /\ likes' = before.likes]_vars

\* A like of a tweet already liked has been turned down, and the like is
\* there once.
C17_Witness ==
    /\ calls[Caller].pc = "returned"
    /\ calls[Caller].op = "like"
    /\ calls[Caller].status = 400
    /\ calls[Caller].detail = "Tweet already liked"
    /\ CopiesIn(LikeRow(calls[Caller].target, calls[Caller].user), likes) = 1

\* The followers and the following of every user, as held by `table`.
FollowMaps(table) ==
    [u \in DOMAIN table |->
        [followers |-> table[u].followers, following |-> table[u].following]]

\* The request answered in this step is one that C18 is about: it targets
\* the caller, or follows a user whom the caller followed when the request
\* arrived, or unfollows a user whom the caller did not follow then.
Refused(c) ==
    LET call == calls[c]
        before == call.pre.users
    IN  /\ Returns(c)
        /\ call.op \in {"follow", "unfollow"}
        /\ \/ call.target = call.user
           \/ /\ call.target \in DOMAIN before
              /\ call.op = "follow"
              /\ Str(call.user) \in DOMAIN before[call.target].followers
           \/ /\ call.target \in DOMAIN before
              /\ call.op = "unfollow"
              /\ Str(call.user) \notin DOMAIN before[call.target].followers

\* C18: a follow or unfollow of the caller's own id, a follow of a user
\* already followed and an unfollow of a user not followed are answered 400,
\* and the followers and following of all users are after the answer what
\* they were when the request arrived.
C18_RefusedFollow ==
    [][\A c \in Clients :
          Refused(c) =>
             /\ calls'[c].status = 400
             /\ FollowMaps(users) = FollowMaps(calls[c].pre.users)
             /\ FollowMaps(users') = FollowMaps(calls[c].pre.users)]_vars

\* A second follow of the same user has been turned down, the first one
\* still in the two rows.
C18_Witness ==
    /\ calls[Caller].pc = "returned"
    /\ calls[Caller].op = "follow"
    /\ calls[Caller].status = 400
    /\ calls[Caller].target # calls[Caller].user
    /\ calls[Caller].target \in UserIds
    /\ InFollowers(calls[Caller].user, calls[Caller].target)
    /\ InFollowing(calls[Caller].target, calls[Caller].user)

\* This step is the delete, in a delete request of the author, of `tweet`.
DeletedByAuthor(tweet) ==
    \E c \in Clients :
        /\ calls[c].pc = "delete"
        /\ calls[c].op = "delete_tweet"
        /\ calls[c].target = tweet.id
        /\ calls[c].user = tweet.author_id
        /\ Returns(c)
        /\ calls'[c].status = 200

\* C19: a delete request for a tweet by a user who is not its author is
\* answered 403 'Wrong owner' and the tweet is still there after the answer;
\* and a tweet leaves the table only in a delete request of its author.
C19_WrongOwner ==
    [][/\ \A c \in Clients, tweet \in tweets :
             (/\ ReturnsOf(c, "delete_tweet", calls[c].user, tweet.id)
              /\ tweet \in calls[c].pre.tweets
              /\ tweet.author_id # calls[c].user) =>
                /\ calls'[c].status = 403
                /\ calls'[c].detail = "Wrong owner"
                /\ tweet \in tweets'
       /\ \A tweet \in tweets \ tweets' : DeletedByAuthor(tweet)]_vars

\* A delete by somebody else has been turned down and the tweet is there.
C19_Witness ==
    /\ calls[Caller].pc = "returned"
    /\ calls[Caller].op = "delete_tweet"
    /\ calls[Caller].status = 403
    /\ calls[Caller].detail = "Wrong owner"
    /\ \E tweet \in tweets :
          /\ tweet.id = calls[Caller].target
          /\ tweet.author_id # calls[Caller].user

\* C20: a delete request for a tweet id that no tweet has is answered 404
\* and changes no tweet.
C20_DeleteMissing ==
    [][\A c \in Clients, tweet_id \in TweetIds :
          (/\ ReturnsOf(c, "delete_tweet", calls[c].user, tweet_id)
           /\ \A tweet \in calls[c].pre.tweets : tweet.id # tweet_id) =>
             /\ calls'[c].status = 404
             /\ tweets' = calls[c].pre.tweets]_vars

\* The ids of the rows a ReadJob carries.
MediasOf(job) == { job.medias[k] : k \in 1..Len(job.medias) }

\* The ids of the rows carried by the ReadJobs in the read queue or with the
\* ReadThread and by the WriteJobs in the write queue or with the WriteThread.
Carried ==
    UNION { MediasOf(read_queue[n]) :
               n \in { m \in 1..Len(read_queue) : read_queue[m] # None } }
        \cup (IF read_thread.pc \in {"gather", "put", "raised"}
              THEN MediasOf(read_thread.item)
              ELSE {})
        \cup { write_queue[n].media :
                  n \in { m \in 1..Len(write_queue) : write_queue[m] # None } }
        \cup (IF write_thread.pc \in {"write", "raised"}
              THEN { write_thread.item.media }
              ELSE {})

\* C21: every row carried by a ReadJob or a WriteJob has its id, its directory
\* <media-root>/<id> exists and its `file` is set in the table, from the put
\* on the read queue on; so the WriteThread opens no path of a row whose
\* `file` is null or whose directory was not made.
C21_ReadyBeforeDispatch ==
    /\ \A id \in Carried :
          /\ id \in 1..Len(media)
          /\ MediaItemDir(id) \in dirs
          /\ media[id].file # Null
    /\ write_thread.pc = "write" =>
          /\ media[write_thread.item.media].file # Null
          /\ MediaItemDir(write_thread.item.media) \in dirs

\* The WriteThread is about to open the file of a row while the ReadJob of
\* another request waits in the read queue.
C21_Witness ==
    /\ write_thread.pc = "write"
    /\ read_queue # << >>
    /\ read_queue[1] # None
    /\ write_thread.item.media \notin MediasOf(read_queue[1])

\* The queue holds a sentinel.
HoldsNone(queue) == \E n \in 1..Len(queue) : queue[n] = None

\* ReadThread.stop has put its sentinel and the queue holds it no more: the
\* ReadThread, the only one to get from the read queue, has taken it.
ReadSentinelTaken ==
    /\ stopper.pc \notin {"idle", "read_put"}
    /\ ~HoldsNone(read_queue)

\* The same of the WriteThread and the write queue.
WriteSentinelTaken ==
    /\ stopper.pc \in {"write_join", "returned"}
    /\ ~HoldsNone(write_queue)

\* C22: the step in which a thread takes the sentinel from its queue reads
\* nothing, puts nothing on the write queue and writes nothing, and leads
\* to the loop test; once a thread has taken the sentinel it is at the test
\* or out of its loop, the flag set, and takes nothing from its queue again.
C22_SentinelEndsLoop ==
    /\ [][/\ (/\ read_thread.pc = "get"
              /\ read_queue # << >>
              /\ read_queue' = Tail(read_queue)
              /\ Head(read_queue) = None) =>
                 /\ read_thread'.pc = "test"
                 /\ write_queue' = write_queue
                 /\ put_log' = put_log
                 /\ disk' = disk
          /\ (/\ write_thread.pc = "get"
              /\ write_queue # << >>
              /\ write_queue' = Tail(write_queue)
              /\ Head(write_queue) = None) =>
                 /\ write_thread'.pc = "test"
                 /\ disk' = disk
          /\ ReadSentinelTaken =>
                 /\ Len(read_queue') >= Len(read_queue)
                 /\ put_log' = put_log
          /\ WriteSentinelTaken =>
                 /\ Len(write_queue') >= Len(write_queue)
                 /\ disk' = disk]_vars
    /\ [](ReadSentinelTaken => (stop_event /\ read_thread.pc \in {"test", "done"}))
    /\ [](WriteSentinelTaken => (stop_event /\ write_thread.pc \in {"test", "done"}))

\* Both threads have taken their sentinels and left their loops, a ReadJob
\* put behind the sentinel still in the read queue.
C22_Witness ==
    /\ ReadSentinelTaken
    /\ WriteSentinelTaken
    /\ read_thread.pc = "done"
    /\ write_thread.pc = "done"
    /\ read_queue # << >>

\* No WriteJob of the job the ReadThread holds was put on the write queue.
NothingForwarded ==
    \A n \in 1..Len(put_log) : put_log[n].media \notin MediasOf(read_thread.item)

\* C23: the ReadThread puts a WriteJob on the write queue only when every
\* read of the job it holds has returned its bytes; while the reads go on,
\* and for ever once one of them has failed, no WriteJob of the job was put.
C23_AllReadsFirst ==
    /\ [][put_log' # put_log =>
             /\ read_thread.pc = "put"
             /\ read_thread.files = Gathered(read_thread.item.upload_files)
             /\ Len(put_log') = Len(put_log) + 1
             /\ put_log'[Len(put_log')].media \in MediasOf(read_thread.item)]_vars
    /\ [](read_thread.pc \in {"gather", "raised"} => NothingForwarded)

\* A read of a job of two files has failed after the job of another request
\* went through.
C23_Witness ==
    /\ read_thread.pc = "raised"
    /\ Len(read_thread.item.medias) = 2
    /\ put_log # << >>
    /\ NothingForwarded

\* C24: the step in which a read fails (the ReadThread leaves its reads
\* without the bytes) ends the thread and leaves the stop flag and the read
\* queue as they are (the job is not put back); from then on the ReadThread
\* takes no step: it gets nothing from the read queue and puts nothing on
\* the write queue, whatever is queued or submitted; and while the flag is
\* unset a submission that finds a slot in the read queue is accepted.
C24_ReadFailureEndsLoop ==
    /\ [][/\ (read_thread.pc = "gather" /\ read_thread'.pc \notin {"gather", "put"}) =>
                 /\ read_thread'.pc = "raised"
                 /\ stop_event' = stop_event
                 /\ read_queue' = read_queue
                 /\ put_log' = put_log
          /\ read_thread.pc = "raised" =>
                 /\ read_thread' = read_thread
                 /\ Len(read_queue') >= Len(read_queue)
                 /\ put_log' = put_log
                 /\ \A n \in 1..Len(read_queue) : read_queue'[n] = read_queue[n]]_vars
    /\ [](\A r \in Received :
             (/\ read_thread.pc = "raised"
              /\ ~stop_event
              /\ requests[r].pc = "put"
              /\ loop = "free"
              /\ HasSlot(read_queue, ReadCap)) => ENABLED Put(r))

\* After a read failure, the flag unset, a submission was accepted and its
\* ReadJob waits in the read queue that nobody takes from.
C24_Witness ==
    /\ read_thread.pc = "raised"
    /\ ~stop_event
    /\ Len(requests) = NRequests
    /\ requests[NRequests].result = "created"
    /\ read_queue # << >>
    /\ read_queue[1].medias = requests[NRequests].media_items

\* C25: the step in which a disk write fails (the WriteThread leaves its
\* write with nothing written) ends the thread and leaves the write queue as
\* it is (the WriteJob is not put back); from then on the WriteThread takes
\* no step: it gets nothing from the write queue and writes nothing,
\* whatever is queued or put there later.
C25_WriteFailureEndsThread ==
    [][/\ (write_thread.pc = "write" /\ write_thread'.pc # "write" /\ disk' = disk) =>
             /\ write_thread'.pc = "raised"
             /\ write_queue' = write_queue
       /\ write_thread.pc = "raised" =>
             /\ write_thread' = write_thread
             /\ disk' = disk
             /\ Len(write_queue') >= Len(write_queue)
             /\ \A n \in 1..Len(write_queue) : write_queue'[n] = write_queue[n]]_vars

\* After a failed disk write a WriteJob put later waits in the write queue
\* and the file of the failed one is not on the disk.
C25_Witness ==
    /\ write_thread.pc = "raised"
    /\ write_queue # << >>
    /\ write_queue[1] # None
    /\ \E n \in 1..Len(put_log) :
          /\ put_log[n] = write_thread.item
          /\ n < Len(put_log)
          /\ put_log[Len(put_log)] = write_queue[1]
    /\ media[write_thread.item.media].file \notin DOMAIN disk

IsJob(item) == item # None

\* The WriteJobs waiting in the write queue, in its order.
QueuedWriteJobs == SelectSeq(write_queue, IsJob)

IsSuffix(s, t) ==
    Len(s) <= Len(t) /\ s = SubSeq(t, Len(t) - Len(s) + 1, Len(t))

C27_LoopNeverBlocked ==
    /\ loop # "request"
    /\ \A r \in Received : requests[r].pc # "blocked"

\* C28: the read queue never holds more than its maxsize of items and the
\* write queue never more than its own, the sentinels counted; and an item
\* is added to a queue only in a step that finds a free slot in it.
C28_Capacities ==
    /\ [](Len(read_queue) <= ReadCap /\ Len(write_queue) <= WriteCap)
    /\ [][/\ Len(read_queue') > Len(read_queue) =>
                 /\ Len(read_queue) < ReadCap
                 /\ Len(read_queue') = Len(read_queue) + 1
          /\ Len(write_queue') > Len(write_queue) =>
                 /\ Len(write_queue) < WriteCap
                 /\ Len(write_queue') = Len(write_queue) + 1]_vars

\* The read queue is full, the sentinel in it, and stop_threads waits with
\* the sentinel of the WriteThread for a slot in the full write queue.
C28_Witness ==
    /\ Len(read_queue) = ReadCap
    /\ HoldsNone(read_queue)
    /\ Len(write_queue) = WriteCap
    /\ stopper.pc = "write_put"

\* Every pair of the ReadJob was put on the write queue as a WriteJob.
AllForwarded(job) ==
    \A k \in 1..Len(job.medias) :
        \E n \in 1..Len(put_log) :
            put_log[n] = ZipItem(job.medias, Gathered(job.upload_files), k)

\* The file of the WriteJob holds its bytes.
Written(job) ==
    LET path == media[job.media].file
    IN  path \in DOMAIN disk /\ disk[path] = job.file

TakenBack(user, target) ==
    \E c \in Clients :
        /\ calls[c].op = "unfollow"
        /\ calls[c].user = user
        /\ calls[c].target = target
        /\ calls[c].status = 200

\* C30: once follow and unfollow requests that ran concurrently are all
\* answered, the follow of every request answered with success, unless a
\* request took it back, is in both rows, and the followers and following
\* of all users agree.
C30_NoLostUpdate ==
    (\A c \in Clients : Answered(c)) =>
        /\ \A c \in Clients :
              (/\ calls[c].op = "follow"
               /\ calls[c].status = 201
               /\ ~TakenBack(calls[c].user, calls[c].target)) =>
                  /\ InFollowers(calls[c].user, calls[c].target)
                  /\ InFollowing(calls[c].target, calls[c].user)
        /\ \A a \in UserIds, b \in UserIds : InFollowing(b, a) <=> InFollowers(a, b)

====
